---------------------------- MODULE Spec2Model ----------------------------
(***************************************************************************)
(* A model of what-am-i's ledger core (src/blockchain.py), of its file     *)
(* (save / load), and of the serving layer's block lookup and reference    *)
(* tree (src/main.py) over the ledgers that src/populate.py builds.        *)
(*                                                                         *)
(* Byte strings are sequences of bytes.  A byte is a record [v, of]: v is  *)
(* its value 0..255 and `of' is empty for a plain byte.  SHA-256 and       *)
(* Ed25519 are modelled as ideal primitives: a digest, a public key and a  *)
(* signature have their real widths (32, 32, 64 bytes) and their first     *)
(* byte carries, in `of', the term it was computed from, so that two       *)
(* digests are equal exactly when their preimages are (no collision) and   *)
(* a signature verifies exactly when it was made over that message with    *)
(* the private key of that public key (no forgery).                        *)
(*                                                                         *)
(* A Python float is modelled by its IEEE-754 big-endian bit pattern (a    *)
(* tuple of 8 byte values) and compared as IEEE-754 compares.  A Python    *)
(* int is an integer; the ints of the model stay far below 2^31.           *)
(***************************************************************************)
EXTENDS Integers, Sequences, FiniteSets, TLC

VARIABLES blocks, now, result, block, wire, file, pc, stack

vars == <<blocks, now, result, block, wire, file, pc, stack>>

\* ----------------------------------------------------------------- bounds
\* The ledger is grown up to MaxLen blocks and the clock up to MaxTime ticks.
MaxLen == 3
MaxTime == 2

\* ------------------------------------------------------------ byte strings
Byte(n) == [v |-> n, of |-> <<>>]
Sym(term) == [v |-> 0, of |-> term]
Bytes(n, b) == [i \in 1..n |-> b]
PAD4 == Bytes(4, Byte(0))
PAD31 == Bytes(31, Byte(0))
PAD63 == Bytes(63, Byte(0))
Min(a, b) == IF a < b THEN a ELSE b

\* Python's s[a:b] and s[a:] for 0 <= a <= b: a slice is cut at the end of s.
Slice(s, a, b) == SubSeq(s, a + 1, Min(b, Len(s)))
SliceFrom(s, a) == SubSeq(s, a + 1, Len(s))

\* Outcomes of a call: a returned value, or a raised exception (named by its
\* type and, for an assert, the line of the assert).
Return(val) == [ok |-> TRUE, err |-> "", val |-> val]
Raise(err) == [ok |-> FALSE, err |-> err, val |-> <<>>]

\* ------------------------------------------------------------------ struct
\* struct.pack('>I', n) and struct.pack('>Q', n), for 0 <= n < 2^31: the four
\* high bytes of a Q are 0.  Out of range (n < 0) is struct.error, raised by
\* the callers.
PackI(n) ==
    <<Byte((n \div 16777216) % 256), Byte((n \div 65536) % 256),
      Byte((n \div 256) % 256), Byte(n % 256)>>
PackQ(n) == PAD4 \o PackI(n)

\* struct.unpack big-endian unsigned: Horner's rule over the bytes.
RECURSIVE UnpackBE(_, _)
UnpackBE(s, acc) == IF s = <<>> THEN acc ELSE UnpackBE(Tail(s), acc * 256 + Head(s).v)
UnpackQ(s) == UnpackBE(s, 0)
UnpackI(s) == UnpackBE(s, 0)

\* struct.pack('>d', f) / struct.unpack('>d', b): the bit pattern, byte by byte.
\* Mutant of PackD: the double packed little-endian ('<d').
PackD_LittleEndian(f) ==
    <<Byte(f[8]), Byte(f[7]), Byte(f[6]), Byte(f[5]),
      Byte(f[4]), Byte(f[3]), Byte(f[2]), Byte(f[1])>>

PackD(f) ==
    <<Byte(f[1]), Byte(f[2]), Byte(f[3]), Byte(f[4]),
      Byte(f[5]), Byte(f[6]), Byte(f[7]), Byte(f[8])>>
\* Mutant of UnpackD: the double is read little-endian ('<d').
UnpackD_LittleEndian(s) == <<s[8].v, s[7].v, s[6].v, s[5].v, s[4].v, s[3].v, s[2].v, s[1].v>>

UnpackD(s) == <<s[1].v, s[2].v, s[3].v, s[4].v, s[5].v, s[6].v, s[7].v, s[8].v>>

\* ------------------------------------------------------------------ floats
\* IEEE-754 double comparison on bit patterns (Python's < and >= on floats).
FloatIsNaN(f) ==
    /\ f[1] % 128 = 127
    /\ f[2] \div 16 = 15
    /\ (f[2] % 16 # 0 \/ \E i \in 3..8 : f[i] # 0)
FloatNeg(f) == f[1] >= 128
FloatMag(f) == <<f[1] % 128, f[2], f[3], f[4], f[5], f[6], f[7], f[8]>>
FloatIsZero(f) == FloatMag(f) = <<0, 0, 0, 0, 0, 0, 0, 0>>
RECURSIVE MagLTFrom(_, _, _)
MagLTFrom(a, b, i) ==
    IF i > 8 THEN FALSE
    ELSE IF a[i] # b[i] THEN a[i] < b[i]
    ELSE MagLTFrom(a, b, i + 1)
MagLT(a, b) == MagLTFrom(a, b, 1)
FloatLT(a, b) ==
    /\ ~FloatIsNaN(a)
    /\ ~FloatIsNaN(b)
    /\ IF FloatNeg(a) /\ ~FloatNeg(b) THEN ~(FloatIsZero(a) /\ FloatIsZero(b))
       ELSE IF ~FloatNeg(a) /\ FloatNeg(b) THEN FALSE
       ELSE IF ~FloatNeg(a) THEN MagLT(FloatMag(a), FloatMag(b))
       ELSE MagLT(FloatMag(b), FloatMag(a))
FloatGE(a, b) == ~FloatIsNaN(a) /\ ~FloatIsNaN(b) /\ ~FloatLT(a, b)

\* time.time() at clock tick t: seconds since the epoch, increasing with t
\* (0x41DA00..00 is about 1.6e9; one tick adds 2^-12 of that exponent's span).
Time(t) == <<65, 218, t, 0, 0, 0, 0, 0>>

\* ------------------------------------------------------- crypto primitives
\* Ed25519PrivateKey.generate().private_bytes_raw(): key k of the key pool.
Keys == {1, 2}
PRIVATE_KEYS == [k \in Keys |-> Bytes(32, Byte(k))]
generate_private_key(k) == PRIVATE_KEYS[k]

generate_public_key(private_bytes) ==
    <<Sym(<<"ed25519.public", private_bytes>>)>> \o PAD31

sign(data, private_bytes) ==
    <<Sym(<<"ed25519.sign", data, private_bytes>>)>> \o PAD63

\* The private key a public key was derived from, when it is a derived key.
IsPublicKey(public_bytes) ==
    /\ Len(public_bytes) = 32
    /\ Len(public_bytes[1].of) = 2
    /\ public_bytes[1].of[1] = "ed25519.public"
    /\ public_bytes = generate_public_key(public_bytes[1].of[2])

\* verify raises ValueError for a key that is not 32 bytes, InvalidSignature for
\* a signature that does not verify, and returns None otherwise.
verify(data, signature, public_bytes) ==
    IF Len(public_bytes) # 32 THEN Raise("ValueError")
    ELSE IF /\ IsPublicKey(public_bytes)
            /\ signature = sign(data, public_bytes[1].of[2])
         THEN Return(<<>>)
    ELSE Raise("InvalidSignature")

sha256(data) ==
    <<Sym(<<"sha256", data>>)>> \o PAD31

\* -------------------------------------------------------------------- Block
\* Field offsets of the wire format.
SIG_END == 64
KEY_END == 96
INDEX_END == 104
HASH_END == 136
HEADER_LEN == 144

\* self.signature of a block that was never signed (None).
None == <<Byte(-1)>>

\* Mutant of Block.verify: only the fixed header is hashed, not the data.
Block_verify_HeaderOnly(blk, public_key) ==
    LET signature == Slice(blk, 0, SIG_END)
    IN  verify(sha256(Slice(blk, SIG_END, HEADER_LEN)), signature, public_key)

Block_verify(blk, public_key) ==
    LET signature == Slice(blk, 0, SIG_END)
    IN  verify(sha256(SliceFrom(blk, SIG_END)), signature, public_key)

\* Block.__init__: the two length asserts, then the fields.
Block_init(data, index, previous_hash, public_key, timestamp, signature) ==
    IF Len(previous_hash) # 32 THEN Raise("AssertionError:60")
    ELSE IF Len(public_key) # 32 THEN Raise("AssertionError:61")
    ELSE Return([data |-> data, index |-> index, previous_hash |-> previous_hash,
                 timestamp |-> timestamp, public_key |-> public_key,
                 signature |-> signature])

\* Mutant of Block.deserialize: the call of cls.verify is left out.
Block_deserialize_NoVerify(blk) ==
    LET signature == Slice(blk, 0, SIG_END)
        public_key == Slice(blk, SIG_END, KEY_END)
    IN  IF Len(blk) < INDEX_END THEN Raise("struct.error")
        ELSE IF Len(blk) < HEADER_LEN THEN Raise("struct.error")
        ELSE Block_init(SliceFrom(blk, HEADER_LEN),
                        UnpackQ(Slice(blk, KEY_END, INDEX_END)),
                        Slice(blk, INDEX_END, HASH_END),
                        public_key,
                        UnpackD(Slice(blk, HASH_END, HEADER_LEN)),
                        signature)

Block_deserialize(blk) ==
    LET signature == Slice(blk, 0, SIG_END)
        public_key == Slice(blk, SIG_END, KEY_END)
        checked == Block_verify(blk, public_key)
    IN  IF ~checked.ok THEN checked
        ELSE IF Len(blk) < INDEX_END THEN Raise("struct.error")
        ELSE IF Len(blk) < HEADER_LEN THEN Raise("struct.error")
        ELSE Block_init(SliceFrom(blk, HEADER_LEN),
                        UnpackQ(Slice(blk, KEY_END, INDEX_END)),
                        Slice(blk, INDEX_END, HASH_END),
                        public_key,
                        UnpackD(Slice(blk, HASH_END, HEADER_LEN)),
                        signature)

Block_serialize_inner(b) ==
    b.public_key \o PackQ(b.index) \o b.previous_hash \o PackD(b.timestamp) \o b.data

Block_hash(b) == sha256(Block_serialize_inner(b))

\* Block.sign: returns the block with its signature set (struct.error when the
\* index cannot be packed).
Block_sign(b, private_key) ==
    IF b.index < 0 THEN Raise("struct.error")
    ELSE Return([b EXCEPT !.signature = sign(Block_hash(b), private_key)])

Block_signed(b) == b.signature # None

\* Mutant of Block.serialize: the assert on the signature and the self-check
\* are left out.
Block_serialize_Unchecked(b) ==
    IF b.index < 0 THEN Raise("struct.error")
    ELSE Return(b.signature \o Block_serialize_inner(b))

Block_serialize(b) ==
    IF b.signature = None THEN Raise("AssertionError:94")
    ELSE IF b.index < 0 THEN Raise("struct.error")
    ELSE LET res == b.signature \o Block_serialize_inner(b)
             checked == Block_verify(res, b.public_key)
         IN  IF ~checked.ok THEN checked ELSE Return(res)

\* --------------------------------------------------------------- Blockchain
\* Blockchain.verify(blocks) at clock reading t.  prev_block is bound to the
\* first block of the list and is not rebound by the loop: every later block is
\* checked against the first one.
RECURSIVE VerifyLoop(_, _, _)
VerifyLoop(blks, i, t) ==
    IF i > Len(blks) THEN Return(<<>>)
    ELSE LET b == blks[i]
             prev_block == blks[1]
         IN  IF ~FloatLT(b.timestamp, t) THEN Raise("AssertionError:132")
             ELSE IF i = 1
                  THEN IF b.index >= 0 THEN VerifyLoop(blks, i + 1, t)
                       ELSE Raise("AssertionError:135")
             ELSE IF b.index # prev_block.index + 1 THEN Raise("AssertionError:138")
             ELSE IF b.previous_hash # Block_hash(prev_block) THEN Raise("AssertionError:139")
             ELSE IF ~FloatGE(b.timestamp, prev_block.timestamp) THEN Raise("AssertionError:140")
             ELSE VerifyLoop(blks, i + 1, t)

\* Mutants of Blockchain.verify: the assert on the index (line 138), the
\* assert on the previous hash (line 139), or the assert on the order of the
\* timestamps (line 140), is left out.
RECURSIVE VerifyLoopWithout(_, _, _, _)
VerifyLoopWithout(line, blks, i, t) ==
    IF i > Len(blks) THEN Return(<<>>)
    ELSE LET b == blks[i]
             prev_block == blks[1]
         IN  IF ~FloatLT(b.timestamp, t) THEN Raise("AssertionError:132")
             ELSE IF i = 1
                  THEN IF b.index >= 0 THEN VerifyLoopWithout(line, blks, i + 1, t)
                       ELSE Raise("AssertionError:135")
             ELSE IF line # 138 /\ b.index # prev_block.index + 1
                  THEN Raise("AssertionError:138")
             ELSE IF line # 139 /\ b.previous_hash # Block_hash(prev_block)
                  THEN Raise("AssertionError:139")
             ELSE IF line # 140 /\ ~FloatGE(b.timestamp, prev_block.timestamp)
                  THEN Raise("AssertionError:140")
             ELSE VerifyLoopWithout(line, blks, i + 1, t)
Blockchain_verify_NoIndexCheck(blks, t) == VerifyLoopWithout(138, blks, 1, t)
Blockchain_verify_NoHashCheck(blks, t) == VerifyLoopWithout(139, blks, 1, t)
Blockchain_verify_NoOrderCheck(blks, t) == VerifyLoopWithout(140, blks, 1, t)

\* Mutant of Blockchain.verify: a first block must have index 0.
Blockchain_verify_FirstIndexZero(blks, t) ==
    IF Len(blks) = 1 /\ blks[1].index # 0 THEN Raise("AssertionError:135")
    ELSE VerifyLoop(blks, 1, t)

Blockchain_verify(blks, t) == VerifyLoop(blks, 1, t)

\* Python's s[-2:].
LastTwo(s) == SubSeq(s, IF Len(s) > 2 THEN Len(s) - 1 ELSE 1, Len(s))

\* Mutant of add_block: the pop of the except branch is left out.
add_block_NoPop(chain, blk, t) ==
    LET block_obj == Block_deserialize(blk)
    IN  IF ~block_obj.ok THEN [blocks |-> chain, res |-> block_obj]
        ELSE LET appended == Append(chain, block_obj.val)
                 checked == Blockchain_verify(LastTwo(appended), t)
             IN  IF checked.ok THEN [blocks |-> appended, res |-> Return(<<>>)]
                 ELSE [blocks |-> appended, res |-> checked]

\* Mutant of add_block: an accepted block is put at the front of the list.
add_block_AtFront(chain, blk, t) ==
    LET block_obj == Block_deserialize(blk)
    IN  IF ~block_obj.ok THEN [blocks |-> chain, res |-> block_obj]
        ELSE LET appended == Append(chain, block_obj.val)
                 checked == Blockchain_verify(LastTwo(appended), t)
             IN  IF checked.ok THEN [blocks |-> <<block_obj.val>> \o chain, res |-> Return(<<>>)]
                 ELSE [blocks |-> chain, res |-> checked]

\* Mutant of add_block: the call of self.verify is left out.
add_block_NoVerify(chain, blk, t) ==
    LET block_obj == Block_deserialize(blk)
    IN  IF ~block_obj.ok THEN [blocks |-> chain, res |-> block_obj]
        ELSE [blocks |-> Append(chain, block_obj.val), res |-> Return(<<>>)]

\* add_block on the stored sequence `chain' with argument blk at clock reading
\* t: the stored sequence afterwards and the outcome of the call.
add_block(chain, blk, t) ==
    LET block_obj == Block_deserialize(blk)
    IN  IF ~block_obj.ok THEN [blocks |-> chain, res |-> block_obj]
        ELSE LET appended == Append(chain, block_obj.val)
                 checked == Blockchain_verify(LastTwo(appended), t)
             IN  IF checked.ok THEN [blocks |-> appended, res |-> Return(<<>>)]
                 ELSE [blocks |-> SubSeq(appended, 1, Len(appended) - 1), res |-> checked]

\* add_block_zero with generated key k: the block is stamped at clock reading
\* t0 and checked by add_block at the later reading t1.
ZERO_HASH_BYTE == 48
add_block_zero(chain, k, t0, t1) ==
    LET private_key == generate_private_key(k)
        public_key == generate_public_key(private_key)
        block_zero == Block_init(<<>>, 0, Bytes(32, Byte(ZERO_HASH_BYTE)), public_key, t0, None).val
        signed == Block_sign(block_zero, private_key).val
    IN  add_block(chain, Block_serialize(signed).val, t1)

last_block(chain) == chain[Len(chain)]
last_index(chain) == last_block(chain).index
last_hash(chain) == Block_hash(last_block(chain))

\* get_block: Python list indexing (a negative index counts from the end), then
\* the assert on the block's own index.
get_block(chain, index) ==
    IF index >= Len(chain) \/ index < -Len(chain) THEN Raise("IndexError")
    ELSE LET b == chain[IF index >= 0 THEN index + 1 ELSE Len(chain) + index + 1]
         IN  IF b.index # index THEN Raise("AssertionError:188") ELSE Return(b)

\* Mutant of dump: the length prefix of a record is left out.
RECURSIVE dump_NoPrefix(_)
dump_NoPrefix(chain) ==
    IF chain = <<>> THEN Return(<<>>)
    ELSE LET block_bytes == Block_serialize(Head(chain))
             rest == dump_NoPrefix(Tail(chain))
         IN  IF ~block_bytes.ok THEN block_bytes
             ELSE IF ~rest.ok THEN rest
             ELSE Return(block_bytes.val \o rest.val)

\* dump: the length-prefixed records, or the first exception of a serialize.
RECURSIVE dump(_)
dump(chain) ==
    IF chain = <<>> THEN Return(<<>>)
    ELSE LET block_bytes == Block_serialize(Head(chain))
             rest == dump(Tail(chain))
         IN  IF ~block_bytes.ok THEN block_bytes
             ELSE IF ~rest.ok THEN rest
             ELSE Return(PackI(Len(block_bytes.val)) \o block_bytes.val \o rest.val)

\* from_dump: the loop over the records, each fed to add_block of the ledger
\* under construction.
RECURSIVE FromDumpLoop(_, _, _)
FromDumpLoop(chain, d, t) ==
    IF d = <<>> THEN Return(chain)
    ELSE IF Len(d) < 4 THEN Raise("struct.error")
    ELSE LET block_size == UnpackI(Slice(d, 0, 4))
             blk == Slice(d, 4, 4 + block_size)
             added == add_block(chain, blk, t)
         IN  IF ~added.res.ok THEN added.res
             ELSE FromDumpLoop(added.blocks, SliceFrom(d, 4 + block_size), t)

from_dump(d, t) == FromDumpLoop(<<>>, d, t)

\* gzip.open(path, 'wb').write(d) and gzip.open(path, 'rb').read(): a gzip
\* member is the two magic bytes, the payload and a trailer holding the size of
\* the payload; reading checks the magic bytes and the trailer.
GZIP_MAGIC == <<Byte(31), Byte(139)>>
gzip_write(d) == GZIP_MAGIC \o d \o PackI(Len(d))
gzip_read(f) ==
    IF Len(f) < 6 THEN Raise("EOFError")
    ELSE IF Slice(f, 0, 2) # GZIP_MAGIC THEN Raise("BadGzipFile")
    ELSE IF SliceFrom(f, Len(f) - 4) # PackI(Len(f) - 6) THEN Raise("BadGzipFile")
    ELSE Return(Slice(f, 2, Len(f) - 4))

\* save: the file is opened for writing (created or emptied) before dump() is
\* evaluated, so a dump() that raises leaves an empty gzip file behind.
save(chain) ==
    LET d == dump(chain)
    IN  IF d.ok THEN [file |-> gzip_write(d.val), res |-> Return(<<>>)]
        ELSE [file |-> gzip_write(<<>>), res |-> d]

\* load(path, create) with the file contents f (NoFile: no such path); k, t0
\* and t1 are the key and the two clock readings of add_block_zero, t1 the
\* reading of the replay.
load(f, create, k, t0, t1) ==
    IF create /\ f = <<Byte(-2)>>
    THEN LET r == add_block_zero(<<>>, k, t0, t1)
         IN  IF r.res.ok THEN Return(r.blocks) ELSE r.res
    ELSE IF f = <<Byte(-2)>> THEN Raise("FileNotFoundError")
    ELSE LET d == gzip_read(f)
         IN  IF ~d.ok THEN d ELSE from_dump(d.val, t1)

\* ------------------------------------------------------------ serving layer
\* json.dumps(data).encode() and json.loads(block.data.decode()) of a stage
\* record, reduced to what build_tree reads of it: the blockchain_index of each
\* entry of 'components'.  An opening brace, then one byte per reference; bytes
\* that do not start with the brace (the empty data of the genesis block) are
\* a JSONDecodeError.
json_dumps(components) ==
    <<Byte(123)>> \o [i \in 1..Len(components) |-> Byte(components[i])]
json_loads(data) ==
    IF data = <<>> \/ data[1] # Byte(123) THEN Raise("JSONDecodeError")
    ELSE Return([i \in 1..(Len(data) - 1) |-> data[i + 1].v])

get_json(chain, block_index) ==
    LET b == get_block(chain, block_index)
    IN  IF ~b.ok THEN b ELSE json_loads(b.val.data)

\* The interpreter's limit on the depth of recursion, above every depth a
\* chain of references to smaller indices can reach.
RecursionLimit == MaxLen + 3

\* Mutant of the recursive call: build_tree calls itself on its own block.
NextCall_Self(frame) == frame.starting_block

\* The block the next recursive call of a frame is made on:
\* child_data['blockchain_index'] of the next component.
NextCall(frame) == frame.components[Len(frame.children) + 1]

\* ------------------------------------------------------------------- inputs
\* What the callers build.  A producer (populate.py, the tests) constructs a
\* Block for public key 1, signs it and hands signature || encoding to
\* add_block.  The byte strings below also cover what no honest producer sends:
\* a signature by another key, a wrong index, a wrong previous hash, a stale or
\* future timestamp, altered or cut bytes, and a cut encoding signed afresh.
ZERO_HASH == Bytes(32, Byte(ZERO_HASH_BYTE))
PAYLOAD == <<Byte(97)>>
OTHER_PAYLOAD == <<Byte(98)>>

\* Block(data, index, previous_hash, generate_public_key(key k), timestamp) then
\* sign(key s): the signed Block object.
SignedBlock(k, s, data, index, previous_hash, timestamp) ==
    Block_sign(Block_init(data, index, previous_hash,
                          generate_public_key(generate_private_key(k)),
                          timestamp, None).val,
               generate_private_key(s)).val

\* The bytes of a Block on the wire, without serialize()'s self-check.
Wire(b) == b.signature \o Block_serialize_inner(b)

\* An encoding cut short and signed with key k.
Resigned(body, k) == sign(sha256(body), generate_private_key(k)) \o body

\* s with byte i (1-based) changed by d.
Flip(s, i, d) == [s EXCEPT ![i] = Byte((s[i].v + d) % 256)]

NextIndex(chain) == IF chain = <<>> THEN 0 ELSE last_index(chain) + 1
NextHash(chain) == IF chain = <<>> THEN ZERO_HASH ELSE last_hash(chain)
TimeChoices == {Time(t) : t \in 0..MaxTime}

\* Signed by the key of the block: the next block at every timestamp, and at
\* timestamp 0 a skipped index, a repeated index, a wrong previous hash, both.
\* Signed by another key: the next block.
Candidates(chain) ==
    {SignedBlock(1, 1, PAYLOAD, NextIndex(chain), NextHash(chain), ts) : ts \in TimeChoices}
    \cup {SignedBlock(1, 1, PAYLOAD, index, NextHash(chain), Time(0)) :
            index \in {NextIndex(chain) + 1} \cup (IF chain = <<>> THEN {} ELSE {last_index(chain)})}
    \cup {SignedBlock(1, 1, PAYLOAD, index, Bytes(32, Byte(0)), Time(0)) :
            index \in {NextIndex(chain), NextIndex(chain) + 1}}
    \cup {SignedBlock(1, 2, PAYLOAD, NextIndex(chain), NextHash(chain), Time(0))}

\* The block an honest producer appends next, stamped at tick 0.
HonestWire(chain) ==
    Wire(SignedBlock(1, 1, PAYLOAD, NextIndex(chain), NextHash(chain), Time(0)))

Damaged(w) ==
    {Flip(w, 1, 1), Flip(w, INDEX_END, 1), w \o <<Byte(50)>>,
     Slice(w, 0, 143), Slice(w, 0, 70), <<>>}
        \cup {Resigned(Slice(w, SIG_END, n), 1) : n \in {KEY_END, 100, 143}}

Submissions(chain) ==
    {Wire(b) : b \in Candidates(chain)} \cup Damaged(HonestWire(chain))

\* A stored block replaced in a dump: the block b with one field changed
\* (kind 1: none beyond the key) and signed afresh with key 2.
ReplacementKinds == 1..5
Replacement(b, kind) ==
    SignedBlock(2, 2,
                IF kind = 2 THEN OTHER_PAYLOAD ELSE b.data,
                IF kind = 3 THEN b.index + 1 ELSE b.index,
                IF kind = 4 THEN Bytes(32, Byte(0)) ELSE b.previous_hash,
                IF kind = 5 THEN Time(MaxTime) ELSE b.timestamp)
Replaced(chain, i, kind) == [chain EXCEPT ![i] = Replacement(chain[i], kind)]

\* The records of a ledger's dump, and the dump made of given records.
Records(chain) == [i \in 1..Len(chain) |-> Block_serialize(chain[i]).val]
RECURSIVE Encode(_)
Encode(recs) ==
    IF recs = <<>> THEN <<>>
    ELSE PackI(Len(Head(recs))) \o Head(recs) \o Encode(Tail(recs))

\* A dump altered inside its records: a byte of the first or of the last record
\* changed, the first length prefix lowered by one, two neighbouring records
\* swapped.
DamagedDumps(chain) ==
    LET d == Encode(Records(chain))
        recs == Records(chain)
    IN  {Flip(d, 5, 1), Flip(d, Len(d), 1), Flip(d, 4, 255)}
        \cup {Encode([recs EXCEPT ![i] = recs[i + 1], ![i + 1] = recs[i]]) :
                i \in 1..(Len(recs) - 1)}

\* A dump altered at record boundaries: whole records removed from the front
\* or from the end, and the first length prefix raised by one.
ShortenedDumps(chain) ==
    LET d == Encode(Records(chain))
        recs == Records(chain)
    IN  {Encode(SubSeq(recs, 1 + n, Len(recs))) : n \in 1..Len(recs)}
        \cup {Encode(SubSeq(recs, 1, Len(recs) - n)) : n \in 1..Len(recs)}
        \cup {Flip(d, 4, 1)}

\* The block a producer builds on the tail at clock tick t and signs with the
\* key k of the block's public key (populate.py, the blockchain tests).
ProducerBlock(chain, k, t) ==
    SignedBlock(k, k, PAYLOAD, last_index(chain) + 1, last_hash(chain), Time(t))

\* Timestamps a block may be stamped with: the clock ticks, a future reading,
\* a negative time, +infinity and a NaN.
NaN == <<127, 248, 0, 0, 0, 0, 0, 0>>
INFINITY == <<127, 240, 0, 0, 0, 0, 0, 0>>
MINUS_ONE == <<191, 240, 0, 0, 0, 0, 0, 0>>
Stamps == TimeChoices \cup {Time(MaxTime + 1), MINUS_ONE, INFINITY, NaN}

\* The next block of the chain, signed by its own key, at each such timestamp.
Stamped(chain) ==
    {SignedBlock(1, 1, PAYLOAD, NextIndex(chain), NextHash(chain), ts) : ts \in Stamps}

\* Blocks offered to an empty ledger: any index, any previous hash, any
\* timestamp, signed by the key of the block.
FirstBlocks ==
    {SignedBlock(k, k, PAYLOAD, index, previous_hash, ts) :
        k \in Keys, index \in {0, 1, 5},
        previous_hash \in {ZERO_HASH, Bytes(32, Byte(0)), Bytes(32, Byte(7))},
        ts \in Stamps}

\* -------------------------------------------------------------------- state
\* blocks: Blockchain.blocks of the ledger instance.  now: the clock tick.
\* result: the last step, its argument and its outcome.  block, wire: a
\* producer's Block object and the bytes in its hands (BlockSpec).  file: the
\* contents of the ledger file, or NoFile while the path does not exist.
\* pc: where a caller of add_block stands when the call is followed line by
\* line (RaceSpec): idle, or past the append of line 147, or in the except
\* branch with the exception of the chain check in hand.  stack: the frames
\* of a build_tree under way in the serving layer (TreeSpec), innermost last.
NoBlock == [none |-> TRUE]
NoFile == <<Byte(-2)>>
Idle == [at |-> "idle", err |-> ""]
Outcome(op, arg, r) == [op |-> op, arg |-> arg, ok |-> r.ok, err |-> r.err, val |-> r.val]

Init ==
    /\ blocks = <<>>
    /\ now = 0
    /\ result = Outcome("init", 0, Return(<<>>))
    /\ block = NoBlock
    /\ wire = None
    /\ file = NoFile
    /\ pc = Idle
    /\ stack = <<>>

\* blockchain.add_block(blk); result.arg is the length before the call.
AddBlock(blk) ==
    /\ Len(blocks) < MaxLen
    /\ LET r == add_block(blocks, blk, Time(now))
       IN  /\ blocks' = r.blocks
           /\ result' = Outcome("add_block", Len(blocks), r.res)
    /\ UNCHANGED <<now, block, wire, file, pc, stack>>

\* blockchain.add_block_zero(); the clock may tick between the stamp taken in
\* add_block_zero and the reading taken by the check.
AddBlockZero(k, adv) ==
    /\ Len(blocks) < MaxLen
    /\ now + adv <= MaxTime
    /\ LET r == add_block_zero(blocks, k, Time(now), Time(now + adv))
       IN  /\ blocks' = r.blocks
           /\ result' = Outcome("add_block_zero", Len(blocks), r.res)
    /\ now' = now + adv
    /\ UNCHANGED <<block, wire, file, pc, stack>>

\* blockchain = Blockchain.from_dump(d), d the ledger's dump(): as dumped
\* (i = 0), or with the record of block i replaced by another signed block of a
\* different encoding.  A failed from_dump leaves the ledger variable as it was.
Restore(i, kind) ==
    /\ blocks # <<>>
    /\ i = 0 => kind = 1
    /\ i # 0 => Block_serialize_inner(Replacement(blocks[i], kind))
                    # Block_serialize_inner(blocks[i])
    /\ LET d == dump(IF i = 0 THEN blocks ELSE Replaced(blocks, i, kind))
           r == IF d.ok THEN from_dump(d.val, Time(now)) ELSE d
       IN  /\ blocks' = IF r.ok THEN r.val ELSE blocks
           /\ result' = Outcome("from_dump", i, IF r.ok THEN Return(<<>>) ELSE r)
    /\ UNCHANGED <<now, block, wire, file, pc, stack>>

\* blockchain.get_block(index)
GetBlock(index) ==
    /\ result' = Outcome("get_block", index, get_block(blocks, index))
    /\ UNCHANGED <<blocks, now, block, wire, file, pc, stack>>

\* blockchain.last_block, .last_index, .last_hash: IndexError on an empty list.
Last(which) ==
    /\ result' = Outcome(which, 0,
                         IF blocks = <<>> THEN Raise("IndexError")
                         ELSE IF which = "last_block" THEN Return(last_block(blocks))
                         ELSE IF which = "last_index" THEN Return(last_index(blocks))
                         ELSE Return(last_hash(blocks)))
    /\ UNCHANGED <<blocks, now, block, wire, file, pc, stack>>

\* blockchain.dump(); result.arg is the number of blocks.
Dump ==
    /\ result' = Outcome("dump", Len(blocks), dump(blocks))
    /\ UNCHANGED <<blocks, now, block, wire, file, pc, stack>>

\* The clock advances.
Tick ==
    /\ now < MaxTime
    /\ now' = now + 1
    /\ result' = Outcome("tick", now, Return(<<>>))
    /\ UNCHANGED <<blocks, block, wire, file, pc, stack>>

\* The ledger under its mutating calls and the clock.
LedgerNext ==
    \/ \E blk \in Submissions(blocks) : AddBlock(blk)
    \/ \E k \in Keys, adv \in {0, 1} : AddBlockZero(k, adv)
    \/ \E i \in 0..(Len(blocks) - 1), kind \in {1, 2} : Restore(i, kind)
    \/ Tick

LedgerSpec == Init /\ [][LedgerNext]_vars

\* The ledger with its lookups, which change neither blocks nor the clock.
Next ==
    \/ LedgerNext
    \/ \E index \in (0 - MaxLen - 1)..MaxLen : GetBlock(index)
    \/ \E which \in {"last_block", "last_index", "last_hash"} : Last(which)
    \/ Dump

Spec == Init /\ [][Next]_vars

\* ------------------------------------- add_block line by line, with a reader
\* Lines 146-147: the bytes are decoded (an exception leaves the call before
\* anything is stored) and the Block is appended.
AddBlockAppend(blk) ==
    /\ pc = Idle
    /\ Len(blocks) < MaxLen
    /\ LET block_obj == Block_deserialize(blk)
       IN  IF block_obj.ok
           THEN /\ blocks' = Append(blocks, block_obj.val)
                /\ pc' = [at |-> "appended", err |-> ""]
                /\ result' = Outcome("append", Len(blocks), Return(<<>>))
           ELSE /\ blocks' = blocks
                /\ pc' = Idle
                /\ result' = Outcome("add_block", Len(blocks), block_obj)
    /\ UNCHANGED <<now, block, wire, file, stack>>

\* Lines 148-150: the chain check of the last two blocks; it returns, and so
\* does add_block, or its exception is caught.
AddBlockVerify ==
    /\ pc.at = "appended"
    /\ LET checked == Blockchain_verify(LastTwo(blocks), Time(now))
       IN  IF checked.ok
           THEN /\ pc' = Idle
                /\ result' = Outcome("add_block", Len(blocks) - 1, Return(<<>>))
           ELSE /\ pc' = [at |-> "except", err |-> checked.err]
                /\ result' = Outcome("verify", Len(blocks) - 1, checked)
    /\ UNCHANGED <<blocks, now, block, wire, file, stack>>

\* Mutant of the except branch: the pop is left out.
AddBlockPop_NoPop ==
    /\ pc.at = "except"
    /\ blocks' = blocks
    /\ pc' = Idle
    /\ result' = Outcome("add_block", Len(blocks) - 1, Raise(pc.err))
    /\ UNCHANGED <<now, block, wire, file, stack>>

\* Lines 151-152: the block is popped and the exception raised again.
AddBlockPop ==
    /\ pc.at = "except"
    /\ blocks' = SubSeq(blocks, 1, Len(blocks) - 1)
    /\ pc' = Idle
    /\ result' = Outcome("add_block", Len(blocks) - 1, Raise(pc.err))
    /\ UNCHANGED <<now, block, wire, file, stack>>

\* One writer inside add_block, a reader that calls last_block, get_block and
\* dump at any moment, and the clock.
RaceNext ==
    \/ \E blk \in Submissions(blocks) : AddBlockAppend(blk)
    \/ AddBlockVerify
    \/ AddBlockPop
    \/ \E which \in {"last_block", "last_hash"} : Last(which)
    \/ \E index \in 0..(MaxLen - 1) : GetBlock(index)
    \/ Dump
    \/ Tick

RaceSpec == Init /\ [][RaceNext]_vars

\* ------------------------------------------------------- the ledger's file
\* blockchain.save(path); result.arg is the number of blocks written.
Save ==
    /\ LET r == save(blocks)
       IN  /\ file' = r.file
           /\ result' = Outcome("save", Len(blocks), r.res)
    /\ UNCHANGED <<blocks, now, block, wire, pc, stack>>

\* blockchain = Blockchain.load(path, create), as at the start of the server;
\* result.arg is 1 for create=True.  On a missing path with create the clock
\* may tick between the stamp and the check of add_block_zero.  A load that
\* raises leaves the ledger variable as it was.
Load(create, k, adv) ==
    /\ now + adv <= MaxTime
    /\ adv = 1 => (create /\ file = NoFile)
    /\ k = 2 => (create /\ file = NoFile)
    /\ LET r == load(file, create, k, Time(now), Time(now + adv))
       IN  /\ blocks' = IF r.ok THEN r.val ELSE blocks
           /\ result' = Outcome("load", IF create THEN 1 ELSE 0,
                                IF r.ok THEN Return(<<>>) ELSE r)
    /\ now' = now + adv
    /\ UNCHANGED <<block, wire, file, pc, stack>>

\* os.remove(path)
RemoveFile ==
    /\ file # NoFile
    /\ file' = NoFile
    /\ result' = Outcome("remove", 0, Return(<<>>))
    /\ UNCHANGED <<blocks, now, block, wire, pc, stack>>

\* The ledger of honest producers with its file.
StoreNext ==
    \/ \E k \in Keys, adv \in {0, 1} : AddBlockZero(k, adv)
    \/ AddBlock(HonestWire(blocks))
    \/ Tick
    \/ Save
    \/ \E create \in BOOLEAN, k \in Keys, adv \in {0, 1} : Load(create, k, adv)
    \/ RemoveFile

StoreSpec == Init /\ [][StoreNext]_vars

\* ------------------------------------------- build_tree in the serving layer
\* What a stage block added at index n may refer to: nothing, earlier blocks
\* (as populate.py does), itself, or a block yet to come.
StageComponents(n) ==
    {<<>>, <<n - 1>>, <<n>>, <<n + 1>>}
        \cup (IF n >= 2 THEN {<<n - 1, n - 1>>} ELSE {})
        \cup (IF n >= 3 THEN {<<n - 2, n - 1>>} ELSE {})

\* add_block_random_origin(data): a block on the tail whose data is the JSON of
\* a stage record with the given component references.
AddStage(components) ==
    /\ stack = <<>>
    /\ blocks # <<>>
    /\ Len(blocks) <= MaxLen
    /\ LET b == SignedBlock(1, 1, json_dumps(components), last_index(blocks) + 1,
                            last_hash(blocks), last_block(blocks).timestamp)
           r == add_block(blocks, Block_serialize(b).val, Time(now))
       IN  /\ blocks' = r.blocks
           /\ result' = Outcome("add_block", Len(blocks), r.res)
    /\ UNCHANGED <<now, block, wire, file, pc, stack>>

\* GET /api/build_tree/{block_index}: build_tree is entered.  An exception of
\* get_json ends the request; otherwise the frame of the call is on the stack.
BuildTreeCall(block_index) ==
    /\ stack = <<>>
    /\ LET data == get_json(blocks, block_index)
       IN  IF data.ok
           THEN /\ stack' = <<[starting_block |-> block_index,
                               components |-> data.val, children |-> <<>>]>>
                /\ result' = Outcome("call", block_index, Return(<<>>))
           ELSE /\ stack' = <<>>
                /\ result' = Outcome("build_tree", block_index, data)
    /\ UNCHANGED <<blocks, now, block, wire, file, pc>>

\* One step of the innermost build_tree: the recursive call for its next
\* component (an exception, also that of the recursion limit, unwinds every
\* frame), or, the components done, its return to the caller.
BuildTreeStep ==
    /\ stack # <<>>
    /\ LET frame == stack[Len(stack)]
           tree == [index |-> frame.starting_block, children |-> frame.children]
       IN  IF Len(frame.children) < Len(frame.components)
           THEN LET data == IF Len(stack) >= RecursionLimit THEN Raise("RecursionError")
                            ELSE get_json(blocks, NextCall(frame))
                IN  IF data.ok
                    THEN /\ stack' = Append(stack, [starting_block |-> NextCall(frame),
                                                    components |-> data.val,
                                                    children |-> <<>>])
                         /\ result' = Outcome("call", NextCall(frame), Return(<<>>))
                    ELSE /\ stack' = <<>>
                         /\ result' = Outcome("build_tree", stack[1].starting_block, data)
           ELSE IF Len(stack) = 1
                THEN /\ stack' = <<>>
                     /\ result' = Outcome("build_tree", frame.starting_block, Return(tree))
                ELSE /\ stack' = SubSeq(stack, 1, Len(stack) - 2) \o
                                   <<[stack[Len(stack) - 1] EXCEPT
                                        !.children = Append(@, tree)]>>
                     /\ result' = Outcome("return", frame.starting_block, Return(<<>>))
    /\ UNCHANGED <<blocks, now, block, wire, file, pc>>

\* The populated ledger and the tree endpoint: a request runs to its end
\* before anything else is served.
TreeNext ==
    \/ (stack = <<>> /\ blocks = <<>> /\ AddBlockZero(1, 1))
    \/ \E components \in StageComponents(Len(blocks)) : AddStage(components)
    \/ \E block_index \in 0..(MaxLen + 1) : BuildTreeCall(block_index)
    \/ BuildTreeStep

TreeSpec == Init /\ [][TreeNext]_vars

\* build_tree is synchronous code: once entered it keeps running.
TreeLive == TreeSpec /\ WF_vars(BuildTreeStep)

\* ------------------------------------------------- a producer's Block object
\* block = Block(data, index, previous_hash, public key of k, timestamp)
NewBlock(k, data, index, previous_hash, timestamp) ==
    /\ LET r == Block_init(data, index, previous_hash,
                           generate_public_key(generate_private_key(k)), timestamp, None)
       IN  /\ block' = IF r.ok THEN r.val ELSE block
           /\ result' = Outcome("Block", index, IF r.ok THEN Return(<<>>) ELSE r)
    /\ wire' = None
    /\ UNCHANGED <<blocks, now, file, pc, stack>>

\* block.sign(private key k): any private key is taken.
SignBlock(k) ==
    /\ block # NoBlock
    /\ LET r == Block_sign(block, generate_private_key(k))
       IN  /\ block' = IF r.ok THEN r.val ELSE block
           /\ result' = Outcome("sign", k, IF r.ok THEN Return(<<>>) ELSE r)
    /\ UNCHANGED <<blocks, now, wire, file, pc, stack>>

\* wire = block.serialize()
SerializeBlock ==
    /\ block # NoBlock
    /\ LET r == Block_serialize(block)
       IN  /\ wire' = IF r.ok THEN r.val ELSE wire
           /\ result' = Outcome("serialize", 0, IF r.ok THEN Return(<<>>) ELSE r)
    /\ UNCHANGED <<blocks, now, block, file, pc, stack>>

\* The serialized bytes altered in transit: one byte changed, or bytes added.
Tampered(w) ==
    {Flip(w, i, d) : i \in 1..Len(w), d \in {1, 128}}
        \cup {w \o <<Byte(0)>>, w \o <<Byte(50)>>, w \o <<Byte(50), Byte(50)>>}

\* One alteration: byte i changed (i > 0), the last byte changed (i < 0), or
\* a byte added (i = 0).
TamperAt(w, i) ==
    IF i = 0 THEN w \o <<Byte(50)>>
    ELSE IF i < 0 THEN Flip(w, Len(w), 1)
    ELSE Flip(w, i, 1)

Tamper(i) ==
    /\ block # NoBlock
    /\ wire # None
    /\ Block_serialize(block) = Return(wire)
    /\ wire' = TamperAt(wire, i)
    /\ result' = Outcome("tamper", 0, Return(<<>>))
    /\ UNCHANGED <<blocks, now, block, file, pc, stack>>

\* Block.deserialize(wire)
DeserializeWire ==
    /\ wire # None
    /\ result' = Outcome("deserialize", 0, Block_deserialize(wire))
    /\ UNCHANGED <<blocks, now, block, wire, file, pc, stack>>

\* Block.verify(block=wire, public_key=block.public_key)
VerifyWire ==
    /\ block # NoBlock
    /\ wire # None
    /\ result' = Outcome("verify", 0, Block_verify(wire, block.public_key))
    /\ UNCHANGED <<blocks, now, block, wire, file, pc, stack>>

BlockNext ==
    \/ \E k \in Keys, data \in {<<>>, PAYLOAD}, index \in {0, 1},
          previous_hash \in {ZERO_HASH, Bytes(31, Byte(ZERO_HASH_BYTE))},
          timestamp \in {Time(0), Time(MaxTime)} :
            NewBlock(k, data, index, previous_hash, timestamp)
    \/ \E k \in Keys : SignBlock(k)
    \/ SerializeBlock
    \/ \E i \in {-1, 0, 1, SIG_END + 1, 100, 120, 140} : Tamper(i)
    \/ DeserializeWire
    \/ VerifyWire

BlockSpec == Init /\ [][BlockNext]_vars

\* =================================================================== claims

\* C1: add_block is transactional.  A call of add_block (also the one made by
\* add_block_zero) that raises leaves the stored sequence exactly as it was and
\* hands the exception to the caller; a call that returns has appended exactly
\* one block at the tail.
C1_Transactional ==
    [][result'.op \in {"add_block", "add_block_zero"} =>
         IF result'.ok
         THEN /\ Len(blocks') = Len(blocks) + 1
              /\ SubSeq(blocks', 1, Len(blocks)) = blocks
         ELSE /\ blocks' = blocks
              /\ result'.err # ""]_vars

\* A chain-rule violation on a non-empty ledger was raised and rolled back.
C1_Witness ==
    /\ result.op = "add_block"
    /\ result.err = "AssertionError:139"
    /\ Len(blocks) = result.arg
    /\ Len(blocks) >= 1

\* C2: every adjacent pair of stored blocks is linked (index + 1, hash of the
\* predecessor, timestamp not earlier), and, stated as equivalent, the
\* full-history check Blockchain.verify(all blocks) passes in every reachable
\* ledger state.
C2_AdjacentPairs ==
    \A i \in 2..Len(blocks) :
        /\ blocks[i].index = blocks[i - 1].index + 1
        /\ blocks[i].previous_hash = Block_hash(blocks[i - 1])
        /\ FloatGE(blocks[i].timestamp, blocks[i - 1].timestamp)
C2_ChainLinkage ==
    /\ C2_AdjacentPairs
    /\ Blockchain_verify(blocks, Time(now)).ok

\* C3: the block stored at position i (from 0) has index i.
C3_DenseIndexing == \A i \in 1..Len(blocks) : blocks[i].index = i - 1

\* C4: on a non-empty ledger, add_block of a correctly signed block whose index
\* is not tail.index + 1, or whose previous_hash is not the hash of the tail, is
\* rejected and the length is unchanged.
C4_AppendRule ==
    blocks # <<>> =>
        \A blk \in Submissions(blocks) :
            LET d == Block_deserialize(blk)
            IN  (/\ d.ok
                 /\ \/ d.val.index # last_index(blocks) + 1
                    \/ d.val.previous_hash # last_hash(blocks))
                => LET r == add_block(blocks, blk, Time(now))
                   IN  ~r.res.ok /\ Len(r.blocks) = Len(blocks)

\* A correctly signed block with a wrong index was refused by a non-empty ledger.
C4_Witness ==
    /\ result.op = "add_block"
    /\ result.err = "AssertionError:138"
    /\ Len(blocks) = result.arg
    /\ Len(blocks) >= 1

\* C5: after add_block_zero on an empty ledger the ledger holds exactly one
\* block, with index 0, empty data and a previous_hash of 32 bytes of value 0.
C5_Genesis ==
    (result.op = "add_block_zero" /\ result.arg = 0 /\ result.ok) =>
        /\ Len(blocks) = 1
        /\ blocks[1].index = 0
        /\ blocks[1].data = <<>>
        /\ blocks[1].previous_hash = Bytes(32, Byte(0))

\* C6: Block.deserialize returns a Block only for an input of at least 144
\* bytes whose first 64 bytes are a valid signature of sha256(bytes[64:]) under
\* the key at bytes[64:96]; every other input raises; and every stored block
\* carries a signature that verifies over its own encoding.
C6_DecodeFailsClosed ==
    /\ \A blk \in Submissions(blocks) :
           LET d == Block_deserialize(blk)
           IN  /\ d.ok => /\ Len(blk) >= HEADER_LEN
                          /\ verify(sha256(SliceFrom(blk, SIG_END)),
                                    Slice(blk, 0, SIG_END),
                                    Slice(blk, SIG_END, KEY_END)).ok
               /\ ~d.ok => d.err \in {"ValueError", "InvalidSignature", "struct.error"}
    /\ \A i \in 1..Len(blocks) :
           verify(Block_hash(blocks[i]), blocks[i].signature, blocks[i].public_key).ok

\* A cut encoding that carries a valid signature was refused by add_block.
C6_Witness ==
    /\ result.op = "add_block"
    /\ result.err = "struct.error"
    /\ Len(blocks) = result.arg

\* C7: for the bytes a signed block serializes to, every byte string obtained
\* by changing one byte or by adding bytes is refused by Block.deserialize and
\* by Block.verify.
C7_TamperDetection ==
    (block # NoBlock /\ wire # None /\ Block_serialize(block) = Return(wire)) =>
        \A t \in Tampered(wire) :
            /\ ~Block_deserialize(t).ok
            /\ ~Block_verify(t, block.public_key).ok

\* Altered bytes of a serialized block were handed to Block.deserialize, which
\* raised InvalidSignature.
C7_Witness ==
    /\ result.op = "deserialize"
    /\ result.err = "InvalidSignature"
    /\ block # NoBlock
    /\ Block_serialize(block).ok
    /\ wire \in Tampered(Block_serialize(block).val)

\* C8: in a stored chain, replacing the block at a position that has a
\* successor by a validly signed block of a different encoding makes the chain
\* check of the pair (replacement, successor) fail, and from_dump of the
\* altered sequence is rejected.
C8_HashChaining ==
    /\ (result.op = "from_dump" /\ result.arg >= 1) => ~result.ok
    /\ \A i \in 1..(Len(blocks) - 1), kind \in ReplacementKinds :
           LET r == Replacement(blocks[i], kind)
           IN  Block_serialize_inner(r) # Block_serialize_inner(blocks[i]) =>
                 /\ Block_serialize(r).ok
                 /\ Blockchain_verify(<<r, blocks[i + 1]>>, Time(MaxTime + 1)).err
                        \in {"AssertionError:138", "AssertionError:139"}
                 /\ ~from_dump(dump(Replaced(blocks, i, kind)).val, Time(MaxTime + 1)).ok

\* A dump with a replaced block was replayed and refused on the hash linkage.
C8_Witness ==
    /\ result.op = "from_dump"
    /\ result.arg >= 1
    /\ result.err = "AssertionError:139"

\* C9: get_block(index) returns the stored block at position index, whose
\* index field is index, when 0 <= index < N, and raises IndexError for every
\* other index, negative ones included.
C9_GetBlock ==
    result.op = "get_block" =>
        IF 0 <= result.arg /\ result.arg < Len(blocks)
        THEN /\ result.ok
             /\ result.val = blocks[result.arg + 1]
             /\ result.val.index = result.arg
        ELSE result.err = "IndexError"

\* C10 as stated: every signed block (signature set) serializes, and the bytes
\* deserialize to a block with the same fields, signature and hash.
C10_RoundTripOfAnySignedBlock ==
    (block # NoBlock /\ Block_signed(block)) =>
        /\ Block_serialize(block).ok
        /\ Block_deserialize(Block_serialize(block).val) = Return(block)

\* C10 amended: every block whose signature was made over its present fields
\* with the private key of its own public_key serializes, and the bytes
\* deserialize to a block with the same data, index, previous_hash, timestamp,
\* public_key and signature, hence the same hash().
C10_RoundTrip ==
    (/\ block # NoBlock
     /\ Block_signed(block)
     /\ verify(Block_hash(block), block.signature, block.public_key).ok) =>
        LET s == Block_serialize(block)
            d == Block_deserialize(s.val)
        IN  /\ s.ok
            /\ d.ok
            /\ d.val.data = block.data
            /\ d.val.index = block.index
            /\ d.val.previous_hash = block.previous_hash
            /\ d.val.timestamp = block.timestamp
            /\ d.val.public_key = block.public_key
            /\ d.val.signature = block.signature
            /\ Block_hash(d.val) = Block_hash(block)

\* The bytes of a serialized block were deserialized into an equal block.
C10_Witness ==
    /\ result.op = "deserialize"
    /\ result.ok
    /\ block # NoBlock
    /\ Block_serialize(block) = Return(wire)
    /\ result.val = block
    /\ block.data # <<>>


\* C11: for every reachable ledger, from_dump(dump()) at the present or any
\* later clock reading returns a ledger of the same length whose blocks have,
\* position by position, the same data, index, timestamp, previous_hash and
\* hash(); and what save writes is read back by load as that same dump.
C11_PersistenceRoundTrip ==
    \A t \in now..(MaxTime + 1) :
        LET d == dump(blocks)
            r == from_dump(d.val, Time(t))
            l == load(save(blocks).file, FALSE, 1, Time(t), Time(t))
        IN  /\ d.ok
            /\ r.ok
            /\ Len(r.val) = Len(blocks)
            /\ \A i \in 1..Len(blocks) :
                   /\ r.val[i].data = blocks[i].data
                   /\ r.val[i].index = blocks[i].index
                   /\ r.val[i].timestamp = blocks[i].timestamp
                   /\ r.val[i].previous_hash = blocks[i].previous_hash
                   /\ Block_hash(r.val[i]) = Block_hash(blocks[i])
            /\ save(blocks).res.ok
            /\ l = r

\* A ledger of at least two blocks was dumped and replayed.
C11_Witness ==
    /\ result.op = "from_dump"
    /\ result.arg = 0
    /\ result.ok
    /\ Len(blocks) >= 2
    /\ from_dump(dump(blocks).val, Time(now)) = Return(blocks)


\* C12: for every non-empty reachable ledger L and every byte string that
\* differs from L.dump() by changed bytes inside a record, a changed length
\* prefix, reordered records, or whole records removed from the front or from
\* the end, from_dump fails.
C12_DamagedRecordsFail ==
    blocks # <<>> =>
        \A d \in DamagedDumps(blocks) :
            d # dump(blocks).val => ~from_dump(d, Time(now)).ok
C12_CorruptedDumpFails ==
    /\ C12_DamagedRecordsFail
    /\ blocks # <<>> =>
           \A d \in ShortenedDumps(blocks) :
               d # dump(blocks).val => ~from_dump(d, Time(now)).ok


\* C13: on a non-empty ledger, the block a producer builds on the tail, stamped
\* with the clock reading at construction and signed with its own key, is
\* accepted by add_block at every clock reading greater than or equal to the
\* construction reading; the length grows by one, last_block is that block and
\* get_block(new last_index) returns it.
C13_AcceptedAtLaterReading ==
    blocks # <<>> =>
        \A k \in Keys :
            LET b == ProducerBlock(blocks, k, now)
                r == add_block(blocks, Block_serialize(b).val, Time(now + 1))
            IN  /\ r.res.ok
                /\ Len(r.blocks) = Len(blocks) + 1
                /\ last_block(r.blocks) = b
C13_ProducerAcceptance ==
    blocks # <<>> =>
        \A k \in Keys, t \in {now, now + 1} :
            LET b == ProducerBlock(blocks, k, now)
                r == add_block(blocks, Block_serialize(b).val, Time(t))
            IN  /\ r.res.ok
                /\ Len(r.blocks) = Len(blocks) + 1
                /\ last_block(r.blocks) = b
                /\ get_block(r.blocks, last_index(r.blocks)) = Return(b)


\* C14: load(path, create=True) on a missing path returns a new ledger holding
\* exactly the genesis block; load on an existing path, whatever create is,
\* returns the ledger replayed from the file and adds no genesis block;
\* load(path, create=False) on a missing path raises.
C14_WhenLoadReturns ==
    (result.op = "load" /\ result.ok) =>
        IF file = NoFile
        THEN /\ result.arg = 1
             /\ Len(blocks) = 1
             /\ blocks[1].index = 0
             /\ blocks[1].data = <<>>
        ELSE Return(blocks) = from_dump(gzip_read(file).val, Time(now))
C14_LoadBootstrap ==
    /\ C14_WhenLoadReturns
    /\ result.op = "load" => (result.ok <=> (file # NoFile \/ result.arg = 1))


\* C15: serialize() of a Block whose signature is absent raises and produces
\* no bytes; a serialize() that returned was called on a signed block, and
\* every Block that deserialize returns (what add_block stores and dump
\* writes) carries a signature.
C15_UnsignedNotSerialized ==
    /\ (block # NoBlock /\ ~Block_signed(block)) =>
           /\ ~Block_serialize(block).ok
           /\ Block_serialize(block).val = <<>>
    /\ (result.op = "serialize" /\ result.ok) => Block_signed(block)
    /\ (result.op = "serialize" /\ ~Block_signed(block)) => wire = None
    /\ (wire # None /\ Block_deserialize(wire).ok) =>
           Block_signed(Block_deserialize(wire).val)

\* serialize() was called on a Block that was never signed, and raised.
C15_Witness ==
    /\ result.op = "serialize"
    /\ result.err = "AssertionError:94"
    /\ block # NoBlock
    /\ ~Block_signed(block)
    /\ wire = None


\* C16: verify(message, signature, public) reports its result as a value: it
\* returns for a valid and for an invalid or malformed signature alike, and
\* does not raise.
C16_VerifyReturnsValue ==
    /\ result.op = "verify" => result.ok
    /\ (block # NoBlock /\ wire # None) =>
           verify(sha256(SliceFrom(wire, SIG_END)), Slice(wire, 0, SIG_END),
                  block.public_key).ok

\* C17: once sign() has set the signature of a Block, a later sign() call on
\* that Block changes neither its signature nor its fields.
C17_SignedOnce ==
    [][(block # NoBlock /\ Block_signed(block) /\ result'.op = "sign")
          => block' = block]_vars


\* C18: add_block rejects, leaving the length unchanged, every block whose
\* timestamp is greater than or equal to the clock reading of the call and every
\* block whose timestamp is smaller than the tail's; along every reachable chain
\* the timestamps do not decrease, and every stored timestamp is strictly
\* earlier than the clock reading at which its block was appended.
C18_TimestampRules ==
    /\ \A b \in Stamped(blocks) :
           LET r == add_block(blocks, Wire(b), Time(now))
           IN  /\ (\/ FloatGE(b.timestamp, Time(now))
                   \/ FloatIsNaN(b.timestamp)
                   \/ (blocks # <<>> /\ FloatLT(b.timestamp, last_block(blocks).timestamp)))
                  => (~r.res.ok /\ r.blocks = blocks)
               /\ r.res.ok => /\ FloatLT(b.timestamp, Time(now))
                              /\ last_block(r.blocks) = b
    /\ \A i \in 2..Len(blocks) : FloatGE(blocks[i].timestamp, blocks[i - 1].timestamp)
    /\ \A i \in 1..Len(blocks) : FloatLT(blocks[i].timestamp, Time(now))

\* A block stamped earlier than the tail was refused on the timestamp order.
C18_Witness ==
    /\ result.op = "add_block"
    /\ result.err = "AssertionError:140"
    /\ Len(blocks) = result.arg
    /\ Len(blocks) >= 1


\* C19: on an empty ledger add_block applies the single-block rules only: a
\* correctly signed block stamped earlier than the clock reading is stored as
\* the first block whatever its index and previous_hash are, and a refusal
\* comes from the decoding or from the timestamp rule, never from an index or
\* hash-linkage check.
C19_FirstBlockRule ==
    blocks = <<>> =>
        /\ \A b \in FirstBlocks :
               LET r == add_block(blocks, Wire(b), Time(now))
               IN  IF FloatLT(b.timestamp, Time(now))
                   THEN r.res.ok /\ r.blocks = <<b>>
                   ELSE r.res.err = "AssertionError:132" /\ r.blocks = <<>>
        /\ \A blk \in Submissions(blocks) :
               add_block(blocks, blk, Time(now)).res.err
                   \in {"", "ValueError", "InvalidSignature", "struct.error",
                        "AssertionError:132"}

\* An empty ledger took a first block with index 1 and a previous_hash that is
\* not the genesis one.
C19_Witness ==
    /\ result.op = "add_block"
    /\ result.ok
    /\ result.arg = 0
    /\ Len(blocks) = 1
    /\ blocks[1].index = 1
    /\ blocks[1].previous_hash # ZERO_HASH


\* C20: across every call of add_block, add_block_zero, get_block, last_block,
\* last_index, last_hash and dump, the stored sequence before the call is a
\* prefix of the stored sequence after it, the length changes by 0 or by +1,
\* and only a successful add_block (directly or via add_block_zero) changes it.
C20_AppendOnly ==
    [][result'.op \in {"add_block", "add_block_zero", "get_block",
                       "last_block", "last_index", "last_hash", "dump"} =>
         /\ Len(blocks') \in {Len(blocks), Len(blocks) + 1}
         /\ SubSeq(blocks', 1, Len(blocks)) = blocks
         /\ blocks' # blocks =>
                (result'.op \in {"add_block", "add_block_zero"} /\ result'.ok)]_vars

\* A third block was appended behind two blocks that stayed in place.
C20_Witness ==
    /\ result.op = "add_block"
    /\ result.ok
    /\ result.arg = 2
    /\ Len(blocks) = 3
    /\ blocks[3].index = blocks[1].index + 2


\* C21: for every byte string x that Block.deserialize accepts,
\* deserialize(x).serialize() = x and deserialize(x).hash() = sha256(x[64:]);
\* after an accepted add_block(x) the hash a child must link to is the digest
\* of the submitted bytes; and dump() succeeds in every reachable ledger state.
C21_ReencodingRoundTrip ==
    /\ \A x \in Submissions(blocks) \cup {Wire(b) : b \in Stamped(blocks)} :
           LET d == Block_deserialize(x)
               r == add_block(blocks, x, Time(now))
           IN  d.ok =>
                 /\ Block_serialize(d.val) = Return(x)
                 /\ Block_hash(d.val) = sha256(SliceFrom(x, SIG_END))
                 /\ r.res.ok => last_hash(r.blocks) = sha256(SliceFrom(x, SIG_END))
    /\ dump(blocks).ok
    /\ \A i \in 1..Len(blocks) :
           Block_deserialize(Block_serialize(blocks[i]).val) = Return(blocks[i])

\* A submitted block was stored behind another and the ledger dumps.
C21_Witness ==
    /\ result.op = "add_block"
    /\ result.ok
    /\ Len(blocks) >= 2
    /\ dump(blocks).ok
    /\ Wire(last_block(blocks)) \in Submissions(SubSeq(blocks, 1, Len(blocks) - 1))
    /\ Block_serialize(last_block(blocks)) = Return(Wire(last_block(blocks)))


\* C22: add_block_zero on a non-empty ledger is always rejected and leaves the
\* ledger unchanged, and in every reachable ledger state a block with index 0
\* is at position 0 only.
C22_SingleGenesis ==
    /\ (result.op = "add_block_zero" /\ result.arg >= 1) =>
           (~result.ok /\ Len(blocks) = result.arg)
    /\ blocks # <<>> =>
           \A k \in Keys, adv \in {0, 1} :
               LET r == add_block_zero(blocks, k, Time(now), Time(now + adv))
               IN  /\ r.res.err \in {"AssertionError:132", "AssertionError:138"}
                   /\ r.blocks = blocks
    /\ \A i \in 2..Len(blocks) : blocks[i].index # 0

\* add_block_zero was called on a non-empty ledger and refused on the index.
C22_Witness ==
    /\ result.op = "add_block_zero"
    /\ result.arg >= 1
    /\ result.err = "AssertionError:138"
    /\ Len(blocks) = result.arg


\* C23: add_block stores the decoded block before the chain check runs and
\* removes it only afterwards on failure.  While no add_block call is under
\* way every stored pair of neighbours has passed the chain check; while one
\* is under way this holds of all blocks but the last one, which a reader
\* calling last_block, get_block or dump sees although it may yet be rejected.
C23_CheckedAtCallGranularity ==
    /\ pc = Idle => C2_AdjacentPairs
    /\ pc # Idle =>
           /\ blocks # <<>>
           /\ \A i \in 2..(Len(blocks) - 1) :
                  /\ blocks[i].index = blocks[i - 1].index + 1
                  /\ blocks[i].previous_hash = Block_hash(blocks[i - 1])
                  /\ FloatGE(blocks[i].timestamp, blocks[i - 1].timestamp)
    /\ pc.at = "except" => pc.err \in {"AssertionError:132", "AssertionError:138",
                                       "AssertionError:139", "AssertionError:140"}

\* Between the failed chain check and the pop, a reader got from last_block a
\* correctly signed block that does not link to its predecessor.
C23_Witness ==
    /\ pc.at = "except"
    /\ pc.err = "AssertionError:139"
    /\ result.op = "last_block"
    /\ result.ok
    /\ Len(blocks) >= 2
    /\ result.val = blocks[Len(blocks)]
    /\ result.val.previous_hash # Block_hash(blocks[Len(blocks) - 1])
    /\ ~C2_AdjacentPairs


\* C24: build_tree(k) terminates on every ledger in which the component
\* references of each block point to strictly smaller ledger indices only: the
\* calls under way are on strictly decreasing indices, the recursion stays
\* within the length of the ledger and never reaches the recursion limit, and
\* a call that is under way ends.  add_block accepts a stage block whatever its
\* references are.
C24_Acyclic ==
    \A i \in 1..Len(blocks) :
        LET data == json_loads(blocks[i].data)
        IN  data.ok => \A j \in 1..Len(data.val) : data.val[j] < blocks[i].index
C24_BoundedRecursion ==
    /\ C24_Acyclic =>
           /\ Len(stack) <= Len(blocks)
           /\ \A d \in 2..Len(stack) :
                  stack[d].starting_block < stack[d - 1].starting_block
           /\ result.op = "build_tree" => result.err # "RecursionError"
    /\ (blocks # <<>> /\ Len(blocks) <= MaxLen) =>
           \A components \in StageComponents(Len(blocks)) :
               LET b == SignedBlock(1, 1, json_dumps(components), last_index(blocks) + 1,
                                    last_hash(blocks), last_block(blocks).timestamp)
               IN  add_block(blocks, Block_serialize(b).val, Time(now)).res.ok
C24_BuildTreeTerminates ==
    /\ []C24_BoundedRecursion
    /\ (C24_Acyclic /\ stack # <<>>) ~> (stack = <<>>)

\* build_tree returned a tree with a child and a grandchild on a ledger whose
\* references all point to smaller indices.
C24_Witness ==
    /\ result.op = "build_tree"
    /\ result.ok
    /\ stack = <<>>
    /\ C24_Acyclic
    /\ result.val.children # <<>>
    /\ result.val.children[1].children # <<>>

=============================================================================
